---- MODULE Spec2Model ----
(***************************************************************************)
(* A model of the bet crate (Canop/bet): the incremental builder of a      *)
(* binary expression tree (src/src/be_tree.rs), its nodes (node.rs) and    *)
(* child slots (child.rs), its two evaluators and simplify, driven by the  *)
(* boolean operators and callbacks of src/src/test_bool.rs and of the      *)
(* crate documentation (src/src/lib.rs).                                   *)
(*                                                                         *)
(* Conventions.  Vec<T> is a sequence; Rust indices are 0-based, so the    *)
(* element of id i is at position i + 1.  Option<T> is a record            *)
(* [some, v].  A usize is kept modulo 2^64 and written by its              *)
(* representative nearest zero: usize::MAX is written -1, so that + 1 and  *)
(* - 1 are exact and "x > 0" on a usize reads "x # 0".                     *)
(***************************************************************************)
EXTENDS Integers, Sequences, FiniteSets, TLC

\* ------------------------------------------------------------- bounds
\* longest token sequence pushed without consulting the accept_* predicates
MaxTokens == 4
\* longest token sequence pushed by a caller that consults accept_* first
MaxChecked == 6
\* the longest token sequence pushed by a caller that only builds and simplifies
MaxBuilt == 5

\* ------------------------------------------------------ caller's types
\* the atoms of test_bool.rs: 'T' evaluates to true, any other char to false
Atoms == {"T", "F"}

\* enum BoolOperator
BoolOperator == {"And", "Or", "Not"}

\* the operators test_bool.rs writes in binary position ('&', '|')
BinaryOps == {"And", "Or"}

\* the operator test_bool.rs writes in unary position ('!')
UnaryOps == {"Not"}

\* ------------------------------------------------------------- Option
NoneId == [some |-> FALSE, v |-> 0]
SomeId(i) == [some |-> TRUE, v |-> i]
NoneOp == [some |-> FALSE, v |-> ""]
SomeOp(op) == [some |-> TRUE, v |-> op]
NoneVal == [some |-> FALSE, v |-> FALSE]
SomeVal(b) == [some |-> TRUE, v |-> b]

\* -------------------------------------------------------------- Child
\* enum Child { None, Node(NodeId), Atom(AtomId) }
ChildNone == [kind |-> "None", id |-> 0]
ChildNode(i) == [kind |-> "Node", id |-> i]
ChildAtom(i) == [kind |-> "Atom", id |-> i]

\* Child::is_some
is_some(child) == child.kind # "None"

\* --------------------------------------------------------------- Node
\* Node::empty
NodeEmpty ==
    [operator |-> NoneOp, parent |-> NoneId, left |-> ChildNone,
     right |-> ChildNone, unary |-> FALSE]

\* Node::is_full
is_full(node) ==
    IF node.unary THEN is_some(node.left) ELSE is_some(node.right)

\* ------------------------------------------------------------- BeTree
VARIABLES
    tree,              \* the BeTree: its seven fields, how the last call on it ended (fault)
                       \* and the profile it is built with (debug_assertions: TRUE for dev,
                       \* where debug assertions and overflow checks are on)
    tokens,            \* history: the tokens pushed so far, as the chars of test_bool.rs
    checked,           \* history: every token was pushed while its accept_* predicate held
    simplified,        \* history: "no": simplify was never called; "once": it was called
                       \* once and no token was pushed since; "yes": otherwise
    result             \* what the last call returned: an evaluation's outcome and call
                       \* log (out, with the callbacks cb), the tree made by
                       \* try_map_atoms (mapped, with its f in map and f's calls in out),
                       \* the atom handed out by mutate_or_create_atom (handle, with the
                       \* factory's atoms in created)

vars == <<tree, tokens, checked, simplified, result>>

\* BeTree::default, in a dev build (the profile of cargo test)
Default ==
    [atoms |-> <<>>, nodes |-> <<NodeEmpty>>, head |-> 0, tail |-> 0,
     last_pushed |-> "Nothing", op_count |-> 0, openness |-> 0,
     fault |-> "none", debug_assertions |-> TRUE]

\* the same tree in a release build
Release(self) == [self EXCEPT !.debug_assertions = FALSE]

\* self.nodes[id]
NodeAt(self, id) == self.nodes[id + 1]

\* a panic: the call stops where it is
Panic(self) == [self EXCEPT !.fault = "panic"]

\* a loop that never ends
Hang(self) == [self EXCEPT !.fault = "hang"]

\* fn store_node: the new node's id is the former length
store_node(self, node) == [self EXCEPT !.nodes = Append(@, node)]

\* fn store_atom
store_atom(self, atom) == [self EXCEPT !.atoms = Append(@, atom)]

\* fn add_child
add_child(self, child) ==
    IF self.debug_assertions /\ is_full(NodeAt(self, self.tail))
    THEN Panic(self)
    ELSE IF is_some(NodeAt(self, self.tail).left)
         THEN [self EXCEPT !.nodes[self.tail + 1].right = child]
         ELSE [self EXCEPT !.nodes[self.tail + 1].left = child]

\* add_child_node as it would be if it left tail on the parent (the variant C9
\* is tested against)
add_child_node_keeps_tail(self, child_idx) ==
    LET s1 == [self EXCEPT !.nodes[child_idx + 1].parent = SomeId(self.tail)]
    IN  add_child(s1, ChildNode(child_idx))

\* fn add_child_node
add_child_node(self, child_idx) ==
    LET s1 == [self EXCEPT !.nodes[child_idx + 1].parent = SomeId(self.tail)]
        s2 == add_child(s1, ChildNode(child_idx))
    IN  IF s2.fault # "none" THEN s2 ELSE [s2 EXCEPT !.tail = child_idx]

\* pub fn push_atom
push_atom(self, atom) ==
    LET s1 == [self EXCEPT !.last_pushed = "Atom"]
        atom_idx == Len(s1.atoms)
        s2 == store_atom(s1, atom)
    IN  IF is_some(NodeAt(s2, s2.tail).left)
        THEN [s2 EXCEPT !.nodes[s2.tail + 1].right = ChildAtom(atom_idx)]
        ELSE [s2 EXCEPT !.nodes[s2.tail + 1].left = ChildAtom(atom_idx)]

\* mutate_or_create_atom as it would be if it pushed a new atom whatever the
\* last token (the variant C20 is tested against)
mutate_or_create_atom_always(self, create) ==
    LET s1 == push_atom(self, create)
    IN  [tree |-> s1, created |-> <<create>>, handle |-> SomeId(Len(s1.atoms) - 1)]

\* pub fn mutate_or_create_atom: the tree it leaves, the factory's calls (the
\* atoms it made) and the place in the arena of the atom whose &mut is returned
mutate_or_create_atom(self, create) ==
    IF self.last_pushed # "Atom"
    THEN LET s1 == push_atom(self, create)
         IN  [tree |-> s1, created |-> <<create>>,
              handle |-> SomeId(Len(s1.atoms) - 1)]
    ELSE [tree |-> self, created |-> <<>>, handle |-> SomeId(Len(self.atoms) - 1)]

\* the caller's write through the &mut Atom it was handed
write_atom(self, handle, atom) == [self EXCEPT !.atoms[handle.v + 1] = atom]

\* pub fn open_par
open_par(self) ==
    LET s1 == [self EXCEPT !.last_pushed = "OpeningPar"]
        node_idx == Len(s1.nodes)
        s2 == store_node(s1, NodeEmpty)
        s3 == add_child_node(s2, node_idx)
    IN  IF s3.fault # "none" THEN s3 ELSE [s3 EXCEPT !.openness = @ + 1]

\* close_par as it would be if it moved tail without counting the parenthesis
\* closed (the variant C16 is tested against)
close_par_keeps_openness(self) ==
    LET s1 == [self EXCEPT !.last_pushed = "ClosingPar"]
        parent == NodeAt(s1, s1.tail).parent
    IN  IF parent.some THEN [s1 EXCEPT !.tail = parent.v] ELSE s1

\* pub fn close_par
close_par(self) ==
    LET s1 == [self EXCEPT !.last_pushed = "ClosingPar"]
        parent == NodeAt(s1, s1.tail).parent
    IN  IF parent.some
        THEN LET s2 == [s1 EXCEPT !.tail = parent.v]
             IN  IF self.debug_assertions /\ s2.openness = 0
                 THEN Panic(s2)
                 ELSE [s2 EXCEPT !.openness = @ - 1]
        ELSE s1

\* push_unary_operator as it would be if it recorded head, not tail, as the
\* parent of the new node (the variant C21 is tested against)
push_unary_operator_under_head(self, operator) ==
    LET node_idx == Len(self.nodes)
        s1 == store_node(self,
                [operator |-> SomeOp(operator), parent |-> SomeId(self.head),
                 left |-> ChildNone, right |-> ChildNone, unary |-> TRUE])
        s2 == add_child(s1, ChildNode(node_idx))
    IN  IF s2.fault # "none" THEN s2 ELSE [s2 EXCEPT !.tail = node_idx]

\* fn push_unary_operator
push_unary_operator(self, operator) ==
    LET node_idx == Len(self.nodes)
        s1 == store_node(self,
                [operator |-> SomeOp(operator), parent |-> SomeId(self.tail),
                 left |-> ChildNone, right |-> ChildNone, unary |-> TRUE])
        s2 == add_child(s1, ChildNode(node_idx))
    IN  IF s2.fault # "none" THEN s2 ELSE [s2 EXCEPT !.tail = node_idx]

\* fn push_binary_operator
push_binary_operator(self, operator) ==
    IF ~is_full(NodeAt(self, self.tail))
    THEN [self EXCEPT !.nodes[self.tail + 1].operator = SomeOp(operator)]
    ELSE
      LET new_idx == Len(self.nodes)
          s1 == store_node(self,
                  [operator |-> SomeOp(operator),
                   parent |-> NodeAt(self, self.tail).parent,
                   left |-> ChildNode(self.tail), right |-> ChildNone,
                   unary |-> FALSE])
          parent == NodeAt(s1, new_idx).parent
      IN  IF ~parent.some
          THEN \* the replaced node was the head: the function returns here
               [s1 EXCEPT !.head = new_idx]
          ELSE
            LET parent_idx == parent.v
                s2 == IF NodeAt(s1, parent_idx).left = ChildNode(s1.tail)
                      THEN [s1 EXCEPT !.nodes[parent_idx + 1].left = ChildNode(new_idx)]
                      ELSE IF s1.debug_assertions
                              /\ NodeAt(s1, parent_idx).right # ChildNode(s1.tail)
                           THEN Panic(s1)
                           ELSE [s1 EXCEPT !.nodes[parent_idx + 1].right = ChildNode(new_idx)]
            IN  IF s2.fault # "none" THEN s2
                ELSE [s2 EXCEPT !.nodes[s2.tail + 1].parent = SomeId(new_idx),
                                !.tail = new_idx]

\* pub fn push_operator
push_operator(self, operator) ==
    LET s1 == IF self.last_pushed \in {"Atom", "ClosingPar"}
              THEN push_binary_operator(self, operator)
              ELSE push_unary_operator(self, operator)
    IN  IF s1.fault # "none" THEN s1
        ELSE [s1 EXCEPT !.last_pushed = "Operator", !.op_count = @ + 1]

\* pub fn accept_unary_operator
accept_unary_operator(self) ==
    self.last_pushed \in {"Nothing", "Operator", "OpeningPar"}

\* pub fn accept_binary_operator
accept_binary_operator(self) == self.last_pushed \in {"Atom", "ClosingPar"}

\* pub fn accept_atom
accept_atom(self) == self.last_pushed \in {"Nothing", "Operator", "OpeningPar"}

\* pub fn accept_opening_par
accept_opening_par(self) ==
    self.last_pushed \in {"Nothing", "Operator", "OpeningPar"}

\* accept_closing_par as it would be without the guard on openness (the
\* variant C13 is tested against)
accept_closing_par_any_depth(self) == self.last_pushed \in {"Atom", "ClosingPar"}

\* pub fn accept_closing_par (openness is a usize: "> 0" is "# 0")
accept_closing_par(self) ==
    self.last_pushed \in {"Atom", "ClosingPar"} /\ self.openness # 0

\* the callers' f of try_map_atoms: it fails on the atoms of bad, and maps the
\* others to themselves or, with swap, to the other atom
AtomMaps == [swap : BOOLEAN, bad : {{}, {"T"}, {"F"}}]

Identity == [swap |-> FALSE, bad |-> {}]

MapAtom(f, atom) ==
    IF f.bad # {} /\ atom \in f.bad THEN [ok |-> FALSE, v |-> atom, err |-> "bad atom " \o atom]
    ELSE IF f.swap THEN [ok |-> TRUE, v |-> IF atom = "T" THEN "F" ELSE "T", err |-> ""]
    ELSE [ok |-> TRUE, v |-> atom, err |-> ""]

\* the for loop of try_map_atoms: the atoms mapped so far, stopping at the
\* first error; calls is the atoms f was called with
RECURSIVE map_loop(_, _, _, _)
map_loop(f, atoms, i, acc) ==
    IF i > Len(atoms) THEN [ok |-> TRUE, atoms |-> acc, err |-> "", calls |-> atoms]
    ELSE LET r == MapAtom(f, atoms[i])
         IN  IF r.ok THEN map_loop(f, atoms, i + 1, Append(acc, r.v))
             ELSE [ok |-> FALSE, atoms |-> acc, err |-> r.err,
                   calls |-> SubSeq(atoms, 1, i)]

\* try_map_atoms as it would be if it built the new tree from the mapped atoms
\* and the nodes only (the variant C14 is tested against)
try_map_atoms_rebuilt(self, f) ==
    LET m == map_loop(f, self.atoms, 1, <<>>)
    IN  IF ~m.ok THEN [st |-> "err", err |-> m.err, tree |-> <<>>, calls |-> m.calls]
        ELSE [st |-> "ok", err |-> "", calls |-> m.calls,
              tree |-> <<[self EXCEPT !.atoms = m.atoms, !.tail = 0,
                                      !.last_pushed = "Nothing"]>>]

\* pub fn try_map_atoms: Err(err), or Ok(tree) (tree is then a sequence of one)
try_map_atoms(self, f) ==
    LET m == map_loop(f, self.atoms, 1, <<>>)
    IN  IF ~m.ok THEN [st |-> "err", err |-> m.err, tree |-> <<>>, calls |-> m.calls]
        ELSE [st |-> "ok", err |-> "", calls |-> m.calls,
              tree |-> <<[self EXCEPT !.atoms = m.atoms]>>]

\* impl PartialEq for BeTree
eq(self, other) ==
    /\ self.atoms = other.atoms
    /\ self.nodes = other.nodes
    /\ self.head = other.head
    /\ self.tail = other.tail
    /\ self.last_pushed = other.last_pushed
    /\ self.op_count = other.op_count
    /\ self.openness = other.openness

\* pub fn get_openness
get_openness(self) == self.openness

\* pub fn is_empty
is_empty(self) == Len(self.atoms) = 0

\* pub fn is_atomic
is_atomic(self) == Len(self.atoms) = 1 /\ self.op_count = 0

\* ---------------------------------------------------------- callbacks
\* The callbacks an evaluation is given.  sc: "bool" is
\* BoolOperator::short_circuit, "never" is a caller that never short-circuits.
\* bad_atoms, bad_ops: the atoms and operators for which a fallible caller's
\* eval_atom and eval_op return an error.
Callbacks ==
    [sc : {"bool", "never"},
     bad_atoms : {{}, {"T"}, {"F"}},
     bad_ops : {{}, {"And"}, {"Not"}}]

\* the callbacks of eval: they cannot fail
TotalCallbacks == {cb \in Callbacks : cb.bad_atoms = {} /\ cb.bad_ops = {}}

\* the closure |&c| c == 'T' of check, |c| Ok(trues.contains(c)) of the crate doc
eval_atom(a) == a = "T"

\* BoolOperator::eval: the value, or no value where it reaches unreachable!()
\* (the crate doc's Err("unexpected operation") arm)
eval_op(op, a, b) ==
    CASE op = "And" /\ b.some -> SomeVal(a /\ b.v)
      [] op = "Or" /\ b.some -> SomeVal(a \/ b.v)
      [] op = "Not" /\ ~b.some -> SomeVal(~a)
      [] OTHER -> NoneVal

\* BoolOperator::short_circuit
short_circuit(cb, op, a) ==
    /\ cb.sc = "bool"
    /\ \/ op = "And" /\ a = FALSE
       \/ op = "Or" /\ a = TRUE

\* one entry of the call log: a call of a callback, its arguments and what it returned
\* (id: the atom's id for eval_atom, the node's id for the others; arg: the
\* atom for eval_atom, the operator for the others)
Call(f, id, arg, left, right, ret, err) ==
    [f |-> f, id |-> id, arg |-> arg, left |-> left, right |-> right,
     ret |-> ret, err |-> err]

\* the outcome of an evaluation: st is "ok" (val is the Option<R> returned),
\* "err" (err is the error returned), "panic" (a callback panicked) or
\* "overflow" (the recursion did not end); calls is the call log
Outcome(st, val, err, calls) ==
    [st |-> st, val |-> val, err |-> err, calls |-> calls]

\* ---------------------------------------------------------- evaluator
\* fuel bounds the depth of the recursion: more nested calls than there are
\* nodes means the walk has entered a cycle and never returns
RECURSIVE eval_node(_, _, _, _)

\* fn eval_child
eval_child(self, cb, child, fuel) ==
    CASE child.kind = "None" -> Outcome("ok", NoneVal, "", <<>>)
      [] child.kind = "Node" -> eval_node(self, cb, child.id, fuel)
      [] child.kind = "Atom" ->
            LET a == self.atoms[child.id + 1]
                r == SomeVal(eval_atom(a))
            IN  Outcome("ok", r, "",
                        <<Call("eval_atom", child.id, a, NoneVal, NoneVal, r, "")>>)

\* eval_node as it would be if it evaluated both children before asking
\* short_circuit (the eager variant C4 is tested against)
eval_node_eager(self, cb, node_idx, fuel) ==
    IF fuel = 0 THEN Outcome("overflow", NoneVal, "", <<>>)
    ELSE
    LET node == NodeAt(self, node_idx)
        l == eval_child(self, cb, node.left, fuel - 1)
        r == eval_child(self, cb, node.right, fuel - 1)
    IN  IF l.st # "ok" THEN l
        ELSE IF ~node.operator.some THEN l
        ELSE IF ~l.val.some THEN l
        ELSE
          LET op == node.operator.v
              sc == short_circuit(cb, op, l.val.v)
              c2 == Append(l.calls \o r.calls,
                      Call("short_circuit", node_idx, op, l.val, NoneVal, SomeVal(sc), ""))
          IN  IF r.st # "ok" THEN Outcome(r.st, NoneVal, "", c2)
              ELSE IF sc THEN Outcome("ok", l.val, "", c2)
              ELSE
                LET v == eval_op(op, l.val.v, r.val)
                    c3 == Append(c2, Call("eval_op", node_idx, op, l.val, r.val, v, ""))
                IN  IF v.some THEN Outcome("ok", v, "", c3)
                    ELSE Outcome("panic", NoneVal, "", c3)

\* eval_node as it would be if a node whose left child has no value yielded
\* the value of its right child (the variant C19 is tested against)
eval_node_right_fallback(self, cb, node_idx, fuel) ==
    IF fuel = 0 THEN Outcome("overflow", NoneVal, "", <<>>)
    ELSE
    LET node == NodeAt(self, node_idx)
        l == eval_child(self, cb, node.left, fuel - 1)
    IN  IF l.st # "ok" THEN l
        ELSE IF ~node.operator.some THEN l
        ELSE IF ~l.val.some
        THEN LET r == eval_child(self, cb, node.right, fuel - 1)
             IN  Outcome(r.st, r.val, "", l.calls \o r.calls)
        ELSE
          LET op == node.operator.v
              sc == short_circuit(cb, op, l.val.v)
              c1 == Append(l.calls,
                      Call("short_circuit", node_idx, op, l.val, NoneVal, SomeVal(sc), ""))
          IN  IF sc THEN Outcome("ok", l.val, "", c1)
              ELSE
                LET r == eval_child(self, cb, node.right, fuel - 1)
                    c2 == c1 \o r.calls
                IN  IF r.st # "ok" THEN Outcome(r.st, NoneVal, "", c2)
                    ELSE
                      LET v == eval_op(op, l.val.v, r.val)
                          c3 == Append(c2,
                                  Call("eval_op", node_idx, op, l.val, r.val, v, ""))
                      IN  IF v.some THEN Outcome("ok", v, "", c3)
                          ELSE Outcome("panic", NoneVal, "", c3)

\* fn eval_node
eval_node(self, cb, node_idx, fuel) ==
    IF fuel = 0 THEN Outcome("overflow", NoneVal, "", <<>>)
    ELSE
    LET node == NodeAt(self, node_idx)
        l == eval_child(self, cb, node.left, fuel - 1)
    IN  IF l.st # "ok" THEN l
        ELSE IF ~node.operator.some THEN l
        ELSE IF ~l.val.some THEN l
        ELSE
          LET op == node.operator.v
              sc == short_circuit(cb, op, l.val.v)
              c1 == Append(l.calls,
                      Call("short_circuit", node_idx, op, l.val, NoneVal, SomeVal(sc), ""))
          IN  IF sc THEN Outcome("ok", l.val, "", c1)
              ELSE
                LET r == eval_child(self, cb, node.right, fuel - 1)
                    c2 == c1 \o r.calls
                IN  IF r.st # "ok" THEN Outcome(r.st, NoneVal, "", c2)
                    ELSE
                      LET v == eval_op(op, l.val.v, r.val)
                          c3 == Append(c2,
                                  Call("eval_op", node_idx, op, l.val, r.val, v, ""))
                      IN  IF v.some THEN Outcome("ok", v, "", c3)
                          ELSE Outcome("panic", NoneVal, "", c3)

\* pub fn eval
eval(self, cb) == eval_node(self, cb, self.head, Len(self.nodes) + 1)

\* the fallible caller's eval_atom: Ok(value), or the error of a bad atom
eval_atom_faillible(cb, id, a) ==
    IF a \in cb.bad_atoms
    THEN Outcome("err", NoneVal, "bad atom " \o a,
                 <<Call("eval_atom", id, a, NoneVal, NoneVal, NoneVal, "bad atom " \o a)>>)
    ELSE Outcome("ok", SomeVal(eval_atom(a)), "",
                 <<Call("eval_atom", id, a, NoneVal, NoneVal, SomeVal(eval_atom(a)), "")>>)

\* the fallible caller's eval_op: the crate doc's, which answers
\* Err("unexpected operation") where BoolOperator::eval is unreachable
eval_op_faillible(cb, op, a, b) ==
    IF op \in cb.bad_ops THEN [ret |-> NoneVal, err |-> "bad operator " \o op]
    ELSE IF eval_op(op, a, b).some THEN [ret |-> eval_op(op, a, b), err |-> ""]
    ELSE [ret |-> NoneVal, err |-> "unexpected operation"]

RECURSIVE eval_node_faillible(_, _, _, _)

\* fn eval_child_faillible
eval_child_faillible(self, cb, child, fuel) ==
    CASE child.kind = "None" -> Outcome("ok", NoneVal, "", <<>>)
      [] child.kind = "Node" -> eval_node_faillible(self, cb, child.id, fuel)
      [] child.kind = "Atom" ->
            eval_atom_faillible(cb, child.id, self.atoms[child.id + 1])

\* eval_node_faillible as it would be if it dropped the error of the right
\* child instead of returning it (the lenient variant C5 is tested against)
eval_node_faillible_lenient(self, cb, node_idx, fuel) ==
    IF fuel = 0 THEN Outcome("overflow", NoneVal, "", <<>>)
    ELSE
    LET node == NodeAt(self, node_idx)
        l == eval_child_faillible(self, cb, node.left, fuel - 1)
    IN  IF l.st # "ok" THEN l
        ELSE IF ~node.operator.some THEN l
        ELSE IF ~l.val.some THEN l
        ELSE
          LET op == node.operator.v
              sc == short_circuit(cb, op, l.val.v)
              c1 == Append(l.calls,
                      Call("short_circuit", node_idx, op, l.val, NoneVal, SomeVal(sc), ""))
          IN  IF sc THEN Outcome("ok", l.val, "", c1)
              ELSE
                LET r == eval_child_faillible(self, cb, node.right, fuel - 1)
                    c2 == c1 \o r.calls
                    v == eval_op_faillible(cb, op, l.val.v, r.val)
                    c3 == Append(c2,
                            Call("eval_op", node_idx, op, l.val, r.val, v.ret, v.err))
                IN  IF v.err = "" THEN Outcome("ok", v.ret, "", c3)
                    ELSE Outcome("err", NoneVal, v.err, c3)

\* eval_node_faillible as it would be if an operator without a left value
\* were an error (the strict variant C12 is tested against)
eval_node_faillible_strict(self, cb, node_idx, fuel) ==
    IF fuel = 0 THEN Outcome("overflow", NoneVal, "", <<>>)
    ELSE
    LET node == NodeAt(self, node_idx)
        l == eval_child_faillible(self, cb, node.left, fuel - 1)
    IN  IF l.st # "ok" THEN l
        ELSE IF ~node.operator.some THEN l
        ELSE IF ~l.val.some THEN Outcome("err", NoneVal, "no operand", l.calls)
        ELSE
          LET op == node.operator.v
              sc == short_circuit(cb, op, l.val.v)
              c1 == Append(l.calls,
                      Call("short_circuit", node_idx, op, l.val, NoneVal, SomeVal(sc), ""))
          IN  IF sc THEN Outcome("ok", l.val, "", c1)
              ELSE
                LET r == eval_child_faillible(self, cb, node.right, fuel - 1)
                    c2 == c1 \o r.calls
                IN  IF r.st # "ok" THEN Outcome(r.st, NoneVal, r.err, c2)
                    ELSE
                      LET v == eval_op_faillible(cb, op, l.val.v, r.val)
                          c3 == Append(c2,
                                  Call("eval_op", node_idx, op, l.val, r.val, v.ret, v.err))
                      IN  IF v.err = "" THEN Outcome("ok", v.ret, "", c3)
                          ELSE Outcome("err", NoneVal, v.err, c3)

\* fn eval_node_faillible
eval_node_faillible(self, cb, node_idx, fuel) ==
    IF fuel = 0 THEN Outcome("overflow", NoneVal, "", <<>>)
    ELSE
    LET node == NodeAt(self, node_idx)
        l == eval_child_faillible(self, cb, node.left, fuel - 1)
    IN  IF l.st # "ok" THEN l
        ELSE IF ~node.operator.some THEN l
        ELSE IF ~l.val.some THEN l
        ELSE
          LET op == node.operator.v
              sc == short_circuit(cb, op, l.val.v)
              c1 == Append(l.calls,
                      Call("short_circuit", node_idx, op, l.val, NoneVal, SomeVal(sc), ""))
          IN  IF sc THEN Outcome("ok", l.val, "", c1)
              ELSE
                LET r == eval_child_faillible(self, cb, node.right, fuel - 1)
                    c2 == c1 \o r.calls
                IN  IF r.st # "ok" THEN Outcome(r.st, NoneVal, r.err, c2)
                    ELSE
                      LET v == eval_op_faillible(cb, op, l.val.v, r.val)
                          c3 == Append(c2,
                                  Call("eval_op", node_idx, op, l.val, r.val, v.ret, v.err))
                      IN  IF v.err = "" THEN Outcome("ok", v.ret, "", c3)
                          ELSE Outcome("err", NoneVal, v.err, c3)

\* pub fn eval_faillible
eval_faillible(self, cb) ==
    eval_node_faillible(self, cb, self.head, Len(self.nodes) + 1)

RECURSIVE simplify_loop(_, _)

\* the loop of simplify as it would be if it cleared the parent of the left
\* child without moving head to it (the variant C24 is tested against)
simplify_stuck_loop(self, fuel) ==
    LET h == NodeAt(self, self.head)
    IN  IF /\ ~h.operator.some
           /\ h.left.kind = "Node"
           /\ ~h.parent.some
           /\ h.right.kind = "None"
           /\ ~h.unary
        THEN IF fuel = 0 THEN Hang(self)
             ELSE simplify_loop(
                    [self EXCEPT !.nodes[h.left.id + 1].parent = NoneId],
                    fuel - 1)
        ELSE self

\* the while let loop of simplify; more iterations than there are nodes means
\* the loop goes round a cycle and never ends
simplify_loop(self, fuel) ==
    LET h == NodeAt(self, self.head)
    IN  IF /\ ~h.operator.some
           /\ h.left.kind = "Node"
           /\ ~h.parent.some
           /\ h.right.kind = "None"
           /\ ~h.unary
        THEN IF fuel = 0 THEN Hang(self)
             ELSE simplify_loop(
                    [self EXCEPT !.nodes[h.left.id + 1].parent = NoneId,
                                 !.head = h.left.id],
                    fuel - 1)
        ELSE self

\* simplify as it would be if its pattern did not ask for operator: None and
\* unary: false (the variant C10 is tested against)
RECURSIVE simplify_any_loop(_, _)
simplify_any_loop(self, fuel) ==
    LET h == NodeAt(self, self.head)
    IN  IF h.left.kind = "Node" /\ ~h.parent.some /\ h.right.kind = "None"
        THEN IF fuel = 0 THEN Hang(self)
             ELSE simplify_any_loop(
                    [self EXCEPT !.nodes[h.left.id + 1].parent = NoneId,
                                 !.head = h.left.id],
                    fuel - 1)
        ELSE self

simplify_any(self) == simplify_any_loop(self, Len(self.nodes))

\* simplify as it would be if it moved head without clearing the parent of the
\* new head (the variant C11 is tested against)
simplify_keeps_parent(self) ==
    LET h == NodeAt(self, self.head)
    IN  IF /\ ~h.operator.some
           /\ h.left.kind = "Node"
           /\ ~h.parent.some
           /\ h.right.kind = "None"
           /\ ~h.unary
        THEN [self EXCEPT !.head = h.left.id]
        ELSE self

\* pub fn simplify
simplify(self) == simplify_loop(self, Len(self.nodes))

\* ------------------------------------------------------------ actions
\* the char test_bool.rs's check maps to each operator
OpChar(op) == CASE op = "And" -> "&" [] op = "Or" -> "|" [] op = "Not" -> "!"

NoResult ==
    [fn |-> "none", cb |-> [sc |-> "bool", bad_atoms |-> {}, bad_ops |-> {}],
     out |-> Outcome("ok", NoneVal, "", <<>>),
     map |-> Identity, mapped |-> <<>>, created |-> <<>>, handle |-> NoneId]

\* the process is alive: no call has panicked or failed to return
Running == tree.fault = "none" /\ result.out.st \in {"ok", "err"}

Init ==
    /\ tree \in {Default, Release(Default)}
    /\ tokens = <<>>
    /\ checked = TRUE
    /\ simplified = "no"
    /\ result = NoResult

\* a builder call: the tree it leaves, the char pushed, whether the caller's
\* accept_* check would have allowed it
Built(next, c, accepted) ==
    /\ Running
    /\ tree' = next
    /\ tokens' = Append(tokens, c)
    /\ checked' = (checked /\ accepted)
    /\ result' = NoResult
    /\ simplified' = (IF simplified = "no" THEN "no" ELSE "yes")

\* whether a caller that follows the accept_* predicates pushes this operator now
AcceptsOperator(self, op) ==
    \/ op \in UnaryOps /\ accept_unary_operator(self)
    \/ op \in BinaryOps /\ accept_binary_operator(self)

PushAtom ==
    /\ Len(tokens) < MaxTokens
    /\ \E a \in Atoms : Built(push_atom(tree, a), a, accept_atom(tree))

PushOperator ==
    /\ Len(tokens) < MaxTokens
    /\ \E op \in BoolOperator :
          Built(push_operator(tree, op), OpChar(op), AcceptsOperator(tree, op))

OpenPar ==
    /\ Len(tokens) < MaxTokens
    /\ Built(open_par(tree), "(", accept_opening_par(tree))

ClosePar ==
    /\ Len(tokens) < MaxTokens
    /\ Built(close_par(tree), ")", accept_closing_par(tree))

\* the same calls by a caller that consults the accept_* predicates first
CheckedPushAtom ==
    /\ Len(tokens) < MaxChecked
    /\ accept_atom(tree)
    /\ \E a \in Atoms : Built(push_atom(tree, a), a, TRUE)

CheckedPushUnaryOperator ==
    /\ Len(tokens) < MaxChecked
    /\ accept_unary_operator(tree)
    /\ \E op \in UnaryOps : Built(push_operator(tree, op), OpChar(op), TRUE)

CheckedPushBinaryOperator ==
    /\ Len(tokens) < MaxChecked
    /\ accept_binary_operator(tree)
    /\ \E op \in BinaryOps : Built(push_operator(tree, op), OpChar(op), TRUE)

CheckedOpenPar ==
    /\ Len(tokens) < MaxChecked
    /\ accept_opening_par(tree)
    /\ Built(open_par(tree), "(", TRUE)

CheckedClosePar ==
    /\ Len(tokens) < MaxChecked
    /\ accept_closing_par(tree)
    /\ Built(close_par(tree), ")", TRUE)

\* mutate_or_create_atom(create) followed by the caller's write through the
\* reference it got (lib.rs:46 pushes a char onto it); the history holds the
\* atom as written
MutatedOrCreated(create, written, accepted) ==
    LET m == mutate_or_create_atom(tree, create)
    IN  /\ Running
        /\ tree' = write_atom(m.tree, m.handle, written)
        /\ tokens' = (IF m.created = <<>>
                       THEN [tokens EXCEPT ![Len(tokens)] = written]
                       ELSE Append(tokens, written))
        /\ checked' = (checked /\ accepted)
        /\ result' = [NoResult EXCEPT !.fn = "mutate_or_create_atom",
                                      !.created = m.created, !.handle = m.handle]
        /\ simplified' = (IF simplified = "no" THEN "no" ELSE "yes")

MutateOrCreateAtom ==
    /\ tree.last_pushed = "Atom" \/ Len(tokens) < MaxTokens
    /\ \E create \in Atoms, written \in Atoms :
          MutatedOrCreated(create, written,
                           tree.last_pushed = "Atom" \/ accept_atom(tree))

CheckedMutateOrCreateAtom ==
    /\ tree.last_pushed = "Atom" \/ Len(tokens) < MaxChecked
    /\ tree.last_pushed = "Atom" \/ accept_atom(tree)
    /\ \E create \in Atoms, written \in Atoms :
          MutatedOrCreated(create, written, TRUE)

\* try_map_atoms borrows the tree immutably
TryMapAtoms ==
    /\ Running
    /\ result = NoResult
    /\ \E f \in AtomMaps :
          LET r == try_map_atoms(tree, f)
          IN  result' = [NoResult EXCEPT
                            !.fn = "try_map_atoms", !.map = f, !.mapped = r.tree,
                            !.out = Outcome(r.st, NoneVal, r.err,
                                       [i \in DOMAIN r.calls |->
                                          Call("f", i - 1, r.calls[i], NoneVal, NoneVal,
                                               NoneVal, MapAtom(f, r.calls[i]).err)])]
    /\ UNCHANGED <<tree, tokens, checked, simplified>>

\* An evaluation reads the tree and changes nothing, so one made right after
\* another returns what it returns from the state before: it is taken from
\* the states that hold no result, which reaches the same states.
Eval ==
    /\ Running
    /\ result = NoResult
    /\ \E cb \in TotalCallbacks :
          result' = [NoResult EXCEPT !.fn = "eval", !.cb = cb, !.out = eval(tree, cb)]
    /\ UNCHANGED <<tree, tokens, checked, simplified>>

EvalFaillible ==
    /\ Running
    /\ result = NoResult
    /\ \E cb \in Callbacks :
          result' = [NoResult EXCEPT !.fn = "eval_faillible", !.cb = cb,
                                      !.out = eval_faillible(tree, cb)]
    /\ UNCHANGED <<tree, tokens, checked, simplified>>

Simplify ==
    /\ Running
    /\ tree' = simplify(tree)
    /\ simplified' = (IF simplified = "no" THEN "once" ELSE "yes")
    /\ result' = NoResult
    /\ UNCHANGED <<tokens, checked>>

Next ==
    \/ PushAtom
    \/ PushOperator
    \/ OpenPar
    \/ ClosePar
    \/ MutateOrCreateAtom
    \/ TryMapAtoms
    \/ Eval
    \/ EvalFaillible
    \/ Simplify

Spec == Init /\ [][Next]_vars

NextChecked ==
    \/ CheckedPushAtom
    \/ CheckedPushUnaryOperator
    \/ CheckedPushBinaryOperator
    \/ CheckedOpenPar
    \/ CheckedClosePar
    \/ CheckedMutateOrCreateAtom
    \/ TryMapAtoms
    \/ Eval
    \/ EvalFaillible
    \/ Simplify

SpecChecked == Init /\ [][NextChecked]_vars

\* a caller that only builds, with or without consulting accept_*, and
\* simplifies at any point; it never evaluates
BuildAtom ==
    /\ Len(tokens) < MaxBuilt
    /\ \E a \in Atoms : Built(push_atom(tree, a), a, accept_atom(tree))

BuildOperator ==
    /\ Len(tokens) < MaxBuilt
    /\ \E op \in BoolOperator :
          Built(push_operator(tree, op), OpChar(op), AcceptsOperator(tree, op))

BuildOpenPar ==
    /\ Len(tokens) < MaxBuilt
    /\ Built(open_par(tree), "(", accept_opening_par(tree))

BuildClosePar ==
    /\ Len(tokens) < MaxBuilt
    /\ Built(close_par(tree), ")", accept_closing_par(tree))

NextBuilder ==
    \/ BuildAtom
    \/ BuildOperator
    \/ BuildOpenPar
    \/ BuildClosePar
    \/ Simplify

SpecBuilder == Init /\ [][NextBuilder]_vars

\* ------------------------------------------------- reading the history
\* the sequence is complete: every parenthesis is closed and the last token
\* is an atom or a closing parenthesis
Complete(self) ==
    self.openness = 0 /\ self.last_pushed \in {"Atom", "ClosingPar"}

\* the operator a char stands for
CharOp(c) == CASE c = "&" -> "And" [] c = "|" -> "Or" [] c = "!" -> "Not"

\* the result is that of an eval of the tree exactly as the tokens built it
EvalOfBuilt ==
    result.fn = "eval" /\ checked /\ simplified = "no" /\ Complete(tree)

\* a1 op1 a2 ... an with n >= 2: atoms at the odd places, binary operators
\* at the even ones
IsFlat(toks) ==
    /\ Len(toks) >= 3
    /\ Len(toks) % 2 = 1
    /\ \A i \in DOMAIN toks :
          IF i % 2 = 1 THEN toks[i] \in Atoms ELSE toks[i] \in {"&", "|"}

\* what a binary operator means (BoolOperator::eval, both operands present)
Apply(op, a, b) == IF op = "And" THEN a /\ b ELSE a \/ b

\* (((a1 op1 a2) op2 a3) ... an): the fold of the first n tokens of a flat sequence
RECURSIVE FoldFlat(_, _)
FoldFlat(toks, n) ==
    IF n = 1 THEN eval_atom(toks[1])
    ELSE Apply(CharOp(toks[n - 1]), FoldFlat(toks, n - 2), eval_atom(toks[n]))

\* The reference evaluator of a complete sequence: one frame per open
\* parenthesis, each with the value built so far at its level (acc), the
\* binary operator waiting for its right operand (bin) and the number of
\* unary operators waiting for their operand (nots).
Frame0 == [acc |-> NoneVal, bin |-> "", nots |-> 0]

\* an operand arrives at the top frame: the waiting unary operators apply to
\* it alone, then the waiting binary operator joins it to all that was built
Operand(stack, v) ==
    LET top == stack[Len(stack)]
        u == IF top.nots % 2 = 1 THEN ~v ELSE v
        acc == IF top.acc.some THEN Apply(top.bin, top.acc.v, u) ELSE u
    IN  [stack EXCEPT ![Len(stack)] = [acc |-> SomeVal(acc), bin |-> "", nots |-> 0]]

RECURSIVE RefStack(_, _)
RefStack(toks, n) ==
    IF n = 0 THEN <<Frame0>>
    ELSE
      LET st == RefStack(toks, n - 1)
          c == toks[n]
          top == st[Len(st)]
      IN  CASE c \in Atoms -> Operand(st, eval_atom(c))
            [] c = "!" -> [st EXCEPT ![Len(st)].nots = @ + 1]
            [] c \in {"&", "|"} -> [st EXCEPT ![Len(st)].bin = CharOp(c)]
            [] c = "(" -> Append(st, Frame0)
            [] c = ")" -> Operand(SubSeq(st, 1, Len(st) - 1), top.acc.v)

RefEval(toks) == RefStack(toks, Len(toks))[1].acc

\* the ids of the nodes of the arena
NodeIds(self) == 0 .. Len(self.nodes) - 1

\* the nodes a set of nodes refers to through left and right
NodeChildren(self, ns) ==
    {c \in NodeIds(self) : \E p \in ns :
        NodeAt(self, p).left = ChildNode(c) \/ NodeAt(self, p).right = ChildNode(c)}

\* the nodes reached from the nodes ns through left and right, ns included
RECURSIVE Reach(_, _)
Reach(self, ns) ==
    LET more == ns \cup NodeChildren(self, ns)
    IN  IF more = ns THEN ns ELSE Reach(self, more)

\* the nodes of the subtree a child slot holds
NodesUnder(self, child) ==
    IF child.kind = "Node" THEN Reach(self, {child.id}) ELSE {}

\* the atoms of the subtree a child slot holds
AtomsUnder(self, child) ==
    (IF child.kind = "Atom" THEN {child.id} ELSE {})
    \cup {a \in 0 .. Len(self.atoms) - 1 : \E n \in NodesUnder(self, child) :
            NodeAt(self, n).left = ChildAtom(a) \/ NodeAt(self, n).right = ChildAtom(a)}

\* the evaluation of one child or node by the function that produced result
ChildBy(fn, self, cb, child) ==
    IF fn = "eval" THEN eval_child(self, cb, child, Len(self.nodes) + 1)
    ELSE eval_child_faillible(self, cb, child, Len(self.nodes) + 1)

NodeBy(fn, self, cb, n) ==
    IF fn = "eval" THEN eval_node(self, cb, n, Len(self.nodes) + 1)
    ELSE eval_node_faillible(self, cb, n, Len(self.nodes) + 1)

\* ------------------------------------------------------------- claims

\* C1: for every token sequence a1 op1 a2 ... an (n >= 2, no parentheses, no
\* unary operators) pushed on a new tree, eval returns the strict
\* left-to-right fold (((a1 op1 a2) op2 a3) ... an), and without
\* short-circuit every pushed atom and operator takes part in it.
C1_LeftToRightFold ==
    (EvalOfBuilt /\ IsFlat(tokens)) =>
        /\ result.out.st = "ok"
        /\ result.out.val = SomeVal(FoldFlat(tokens, Len(tokens)))
        /\ result.cb.sc = "never" =>
              /\ \A a \in 0 .. (Len(tokens) - 1) \div 2 :
                    \E i \in DOMAIN result.out.calls :
                        result.out.calls[i].f = "eval_atom" /\ result.out.calls[i].id = a
              /\ Cardinality({i \in DOMAIN result.out.calls :
                                 result.out.calls[i].f = "eval_op"})
                    = (Len(tokens) - 1) \div 2

\* C2: for every grammar-valid complete token sequence with unary operators
\* and/or parentheses, eval returns the value of the reference evaluator: a
\* parenthesised group is one operand, a unary operator applies only to the
\* operand that follows it, a binary operator takes everything built so far
\* at its nesting level as its left operand.
C2_ReferenceEvaluator ==
    (EvalOfBuilt /\ \E i \in DOMAIN tokens : tokens[i] \in {"!", "(", ")"}) =>
        /\ result.out.st = "ok"
        /\ result.out.val = RefEval(tokens)

\* C3: in eval and eval_faillible of a tree built from a grammar-valid
\* complete sequence, eval_op gets a right value for an operator pushed in
\* binary position and none for one pushed in unary position, and the
\* callers' unreachable!() / "unexpected operation" arm is never reached.
C3_RightValuePresence ==
    (result.fn # "none" /\ checked /\ simplified = "no" /\ Complete(tree)) =>
        /\ \A i \in DOMAIN result.out.calls :
              result.out.calls[i].f = "eval_op" =>
                  (result.out.calls[i].right.some
                     <=> ~NodeAt(tree, result.out.calls[i].id).unary)
        /\ result.out.st # "panic"
        /\ result.out.err # "unexpected operation"

\* C4: in eval and eval_faillible, at every operator node whose left value is
\* present and for which short_circuit(op, left) is true, no eval_atom or
\* eval_op call is made for an atom or node of the right subtree, eval_op is
\* not called for the node, and the node's value is the left value.
C4_ShortCircuitSkipsRight ==
    result.fn # "none" =>
      \A n \in NodeIds(tree) :
        LET node == NodeAt(tree, n)
            l == ChildBy(result.fn, tree, result.cb, node.left)
            o == NodeBy(result.fn, tree, result.cb, n)
        IN  (/\ node.operator.some
             /\ l.st = "ok"
             /\ l.val.some
             /\ short_circuit(result.cb, node.operator.v, l.val.v)) =>
                /\ o.st = "ok"
                /\ o.val = l.val
                /\ Len(o.calls) = Len(l.calls) + 1
                /\ \A i \in DOMAIN o.calls :
                      /\ ~(o.calls[i].f = "eval_op" /\ o.calls[i].id = n)
                      /\ ~(/\ o.calls[i].f = "eval_atom"
                           /\ o.calls[i].id \in AtomsUnder(tree, node.right))
                      /\ ~(/\ o.calls[i].f \in {"eval_op", "short_circuit"}
                           /\ o.calls[i].id \in NodesUnder(tree, node.right))

\* C4's case: an evaluation short-circuited the head although its right
\* subtree holds an atom
C4_Witness ==
    /\ result.fn = "eval_faillible"
    /\ NodeAt(tree, tree.head).operator.some
    /\ AtomsUnder(tree, NodeAt(tree, tree.head).right) # {}
    /\ Len(result.out.calls) > 0
    /\ result.out.calls[Len(result.out.calls)].f = "short_circuit"
    /\ result.out.calls[Len(result.out.calls)].id = tree.head
    /\ result.out.calls[Len(result.out.calls)].ret = SomeVal(TRUE)

\* C5: if a call of eval_atom or eval_op made during eval_faillible returns an
\* error, eval_faillible returns exactly that error and no value, and no
\* callback is called after the failing call.
C5_FirstErrorReturned ==
    result.fn = "eval_faillible" =>
      LET calls == result.out.calls
      IN  /\ \A i \in DOMAIN calls :
                calls[i].err # "" =>
                    /\ i = Len(calls)
                    /\ result.out.st = "err"
                    /\ result.out.err = calls[i].err
                    /\ ~result.out.val.some
          /\ result.out.st = "err" =>
                Len(calls) > 0 /\ calls[Len(calls)].err = result.out.err

\* C5's case: after calls that succeeded, the evaluation of an atom failed and
\* the walk stopped there: an operator the head reaches was never applied
C5_Witness ==
    /\ result.fn = "eval_faillible"
    /\ result.out.st = "err"
    /\ Len(result.out.calls) >= 3
    /\ result.out.calls[Len(result.out.calls)].f = "eval_atom"
    /\ \E n \in NodesUnder(tree, ChildNode(tree.head)) :
          /\ NodeAt(tree, n).operator.some
          /\ \A i \in DOMAIN result.out.calls :
                ~(result.out.calls[i].f = "eval_op" /\ result.out.calls[i].id = n)

\* C6: when each token is pushed only while its accept_* predicate holds, the
\* builder never panics: whenever an atom, an opening parenthesis or a unary
\* operator may be pushed next, tail is not full, so add_child's assertion
\* holds and no occupied slot of tail is overwritten.
C6_TailNotFullOnInsert ==
    (checked /\ simplified = "no") =>
        /\ tree.fault = "none"
        /\ accept_atom(tree) => ~is_full(NodeAt(tree, tree.tail))

\* C7: in every state reachable by any sequence of builder operations,
\* close_par called when openness == 0 leaves openness at 0 and tail
\* unchanged: openness never goes below 0.
C7_ExcessCloseParIgnored ==
    [][(/\ simplified = "no"
        /\ tree.openness = 0
        /\ tokens' = Append(tokens, ")")
        /\ tree' = close_par(tree))
       => (/\ tree'.openness = 0
           /\ tree'.tail = tree.tail
           /\ tree'.fault = "none")]_vars

\* C8: after every prefix of a grammar-valid token sequence the nodes
\* reachable from head form a tree with consistent back-references: head has
\* no parent, every other reachable node is the child of exactly one node,
\* and p holds Node(c) in a slot if and only if c's parent is p.
C8_TreeBackReferences ==
    (checked /\ simplified = "no" /\ tree.fault = "none") =>
        /\ ~NodeAt(tree, tree.head).parent.some
        /\ \A c \in Reach(tree, {tree.head}) \ {tree.head} :
              Cardinality({p \in NodeIds(tree) : c \in NodeChildren(tree, {p})}) = 1
        /\ \A p, c \in NodeIds(tree) :
              c \in NodeChildren(tree, {p}) <=> NodeAt(tree, c).parent = SomeId(p)

\* n opening parentheses, one atom, n closing parentheses (n >= 0)
IsWrappedAtom(toks) ==
    /\ Len(toks) % 2 = 1
    /\ LET n == (Len(toks) - 1) \div 2
       IN  \A i \in DOMAIN toks :
             CASE i <= n -> toks[i] = "("
               [] i = n + 1 -> toks[i] \in Atoms
               [] OTHER -> toks[i] = ")"

\* C9: for every n >= 0, after n open_par, one push_atom(a) and n close_par on
\* a new tree, eval returns Some(eval_atom(a)) without calling eval_op, and
\* is_atomic() is true.
C9_WrappedAtom ==
    (result.fn = "eval" /\ simplified = "no" /\ IsWrappedAtom(tokens)) =>
        /\ result.out.st = "ok"
        /\ result.out.val = SomeVal(eval_atom(tokens[(Len(tokens) + 1) \div 2]))
        /\ \A i \in DOMAIN result.out.calls : result.out.calls[i].f = "eval_atom"
        /\ Len(result.out.calls) = 1
        /\ is_atomic(tree)

\* C9's case: eval of "((T))"
C9_Witness ==
    /\ result.fn = "eval"
    /\ simplified = "no"
    /\ tokens = <<"(", "(", "T", ")", ")">>

\* C10: on a tree built by a grammar-valid complete token sequence, simplify
\* does not change what eval returns nor the calls it makes, whatever the
\* callbacks, and leaves atoms, op_count and openness unchanged.
C10_SimplifyKeepsEval ==
    [][(/\ checked
        /\ simplified = "no"
        /\ Complete(tree)
        /\ Simplify)
       => (/\ \A cb \in TotalCallbacks : eval(tree', cb) = eval(tree, cb)
           /\ tree'.atoms = tree.atoms
           /\ tree'.op_count = tree.op_count
           /\ tree'.openness = tree.openness
           /\ tree'.fault = "none")]_vars

\* C10's case: simplify has just moved the head of a complete tree that
\* holds an operator
C10_Witness ==
    /\ checked
    /\ simplified = "once"
    /\ Complete(tree)
    /\ tree.head # 0
    /\ tree.op_count > 0

\* C11: after simplify on the tree built from n >= 1 open_par, one atom and n
\* close_par, simplify has returned, head is the node whose left child is that
\* atom, that node has no parent, and is_atomic() is true.
C11_SimplifyWrappedAtom ==
    (simplified = "once" /\ IsWrappedAtom(tokens) /\ Len(tokens) >= 3) =>
        /\ tree.fault = "none"
        /\ NodeAt(tree, tree.head).left = ChildAtom(0)
        /\ ~NodeAt(tree, tree.head).parent.some
        /\ tree.head = (Len(tokens) - 1) \div 2
        /\ is_atomic(tree)

\* C11's case: simplify has run on "((T))"
C11_Witness ==
    /\ simplified = "once"
    /\ tokens = <<"(", "(", "T", ")", ")">>
    /\ tree.head = 2

\* no atom was ever stored: no token of the history is an atom
NoAtomPushed == \A i \in DOMAIN tokens : tokens[i] \notin Atoms

\* C12: after any sequence of builder operations, grammar-valid or not, that
\* stores no atom, is_empty() is true and eval and eval_faillible return no
\* value (None / Ok(None)), without an error and without calling eval_atom or
\* eval_op.
C12_EmptyTreeNoValue ==
    NoAtomPushed =>
        /\ is_empty(tree)
        /\ result.fn \in {"eval", "eval_faillible"} =>
              /\ result.out.st = "ok"
              /\ result.out.val = NoneVal
              /\ result.out.err = ""
              /\ \A i \in DOMAIN result.out.calls :
                    result.out.calls[i].f \notin {"eval_atom", "eval_op"}

\* C12's case: eval_faillible, with an eval_op that would fail, of a tree that
\* holds operators and parentheses but no atom
C12_Witness ==
    /\ NoAtomPushed
    /\ result.fn = "eval_faillible"
    /\ result.cb.bad_ops = {"Not"}
    /\ Len(tokens) >= 3
    /\ \E n \in NodesUnder(tree, ChildNode(tree.head)) :
          NodeAt(tree, n).operator = SomeOp("Not")

\* the TokenType a pushed char belongs to
TokenTypeOf(c) ==
    CASE c \in Atoms -> "Atom"
      [] c \in {"&", "|", "!"} -> "Operator"
      [] c = "(" -> "OpeningPar"
      [] c = ")" -> "ClosingPar"

\* C13: in every reachable state the five accept_* predicates are functions of
\* last_pushed and openness only (atom, unary operator and opening parenthesis
\* after Nothing, Operator or OpeningPar; binary operator after Atom or
\* ClosingPar; closing parenthesis after Atom or ClosingPar with openness > 0),
\* and after each builder call that returned, acceptable or not, last_pushed is
\* the type of the token pushed.
C13_AcceptPredicates ==
    LET lp == tree.last_pushed
        opening == lp \in {"Nothing", "Operator", "OpeningPar"}
        closing == lp \in {"Atom", "ClosingPar"}
    IN  /\ accept_atom(tree) = opening
        /\ accept_unary_operator(tree) = opening
        /\ accept_opening_par(tree) = opening
        /\ accept_binary_operator(tree) = closing
        /\ accept_closing_par(tree) = (closing /\ get_openness(tree) # 0)
        /\ tokens = <<>> => lp = "Nothing"
        /\ (tokens # <<>> /\ tree.fault = "none") =>
              lp = TokenTypeOf(tokens[Len(tokens)])

\* C13's case: a closing parenthesis that was not acceptable has been pushed
\* after an atom, with no parenthesis open
C13_Witness ==
    /\ ~checked
    /\ Len(tokens) >= 2
    /\ tokens[Len(tokens)] = ")"
    /\ tokens[Len(tokens) - 1] \in Atoms
    /\ tree.fault = "none"
    /\ tree.openness = 0
    /\ ~accept_closing_par(tree)
    /\ accept_binary_operator(tree)

\* C14: for every reachable tree t, try_map_atoms with the identity function
\* returns Ok(t2) with t2 == t (the same atoms in the same order, the same
\* nodes, head, tail, last_pushed, op_count and openness), calls f once per
\* atom in arena order, and leaves t unchanged.
C14_MapIdentity ==
    [][(TryMapAtoms /\ result'.map = Identity)
       => (/\ result'.out.st = "ok"
           /\ Len(result'.mapped) = 1
           /\ eq(result'.mapped[1], tree)
           /\ result'.mapped[1].atoms = tree.atoms
           /\ result'.mapped[1].nodes = tree.nodes
           /\ result'.mapped[1].head = tree.head
           /\ result'.mapped[1].tail = tree.tail
           /\ result'.mapped[1].last_pushed = tree.last_pushed
           /\ result'.mapped[1].op_count = tree.op_count
           /\ result'.mapped[1].openness = tree.openness
           /\ [i \in DOMAIN result'.out.calls |-> result'.out.calls[i].arg] = tree.atoms
           /\ tree' = tree)]_vars

\* C14's case: the identity was mapped over a tree that holds two atoms and an
\* operator and whose tail is not the first node
C14_Witness ==
    /\ result.fn = "try_map_atoms"
    /\ result.map = Identity
    /\ Len(result.mapped) = 1
    /\ Len(tree.atoms) >= 2
    /\ tree.op_count > 0
    /\ tree.tail # 0
    /\ tree.atoms[1] # tree.atoms[2]

\* a call without what it returned
CallMade(call) == [f |-> call.f, id |-> call.id, arg |-> call.arg,
                   left |-> call.left, right |-> call.right]

\* eval's outcome e and eval_faillible's outcome f for the same callbacks
\* wrapped in Ok.  Where BoolOperator::eval is unreachable!() (eval panics in
\* that eval_op call) the fallible eval_op stands in with its error; up to
\* that call the two walks are the same.
SameOutcome(e, f) ==
    /\ e.st \in {"ok", "panic", "overflow"}
    /\ e.st = "ok" => f = e
    /\ e.st = "overflow" => f.st = "overflow"
    /\ e.st = "panic" =>
          /\ f.st = "err"
          /\ f.err = "unexpected operation"
          /\ Len(f.calls) = Len(e.calls)
          /\ \A i \in DOMAIN e.calls :
                /\ CallMade(f.calls[i]) = CallMade(e.calls[i])
                /\ i < Len(e.calls) => f.calls[i] = e.calls[i]

\* C15: for every reachable tree and all total callbacks, eval_faillible with
\* the callbacks wrapped in Ok returns Ok(v) with v the value eval returns, and
\* makes the same sequence of callback calls.
C15_FaillibleRefinesEval ==
    \A cb \in TotalCallbacks : SameOutcome(eval(tree, cb), eval_faillible(tree, cb))

\* C15's case: eval_faillible returned Ok(Some(v)) after at least one eval_op
\* call and one short_circuit call, as eval does on the same tree
C15_Witness ==
    /\ result.fn = "eval_faillible"
    /\ result.cb \in TotalCallbacks
    /\ result.out.st = "ok"
    /\ result.out.val.some
    /\ result.out = eval(tree, result.cb)
    /\ \E i, j \in DOMAIN result.out.calls :
          result.out.calls[i].f = "eval_op" /\ result.out.calls[j].f = "short_circuit"

\* how many times a char was pushed
Count(toks, c) == Cardinality({i \in DOMAIN toks : toks[i] = c})

\* C16: while each token is pushed only when its accept_* predicate is true
\* (and simplify is not called in between), after every builder call that
\* returned openness is the number of open_par calls minus the number of
\* close_par calls, and every close_par finds that tail has a parent, moves
\* tail to it and decrements openness by exactly 1.
C16_OpennessCounts ==
    [][(checked' /\ simplified' = "no" /\ tree'.fault = "none")
       => (/\ tree'.openness = Count(tokens', "(") - Count(tokens', ")")
           /\ CheckedClosePar =>
                 /\ NodeAt(tree, tree.tail).parent.some
                 /\ tree'.tail = NodeAt(tree, tree.tail).parent.v
                 /\ tree'.openness = tree.openness - 1)]_vars

\* C16's case: two parentheses were opened and both were closed, around an
\* operator
C16_Witness ==
    /\ checked
    /\ simplified = "no"
    /\ tree.fault = "none"
    /\ Count(tokens, "(") = 2
    /\ Count(tokens, ")") = 2
    /\ tree.op_count > 0
    /\ tree.openness = 0

\* C17: when push_operator inserts a binary operator and the tail node is
\* full, afterwards a new non-unary node n carries the operator with left ==
\* Node(old tail), no right child and the old tail's former parent as parent;
\* nodes[old tail].parent == Some(n); tail == n; the former parent's slot that
\* held Node(old tail) holds Node(n), or, if the old tail had no parent,
\* head == n.
C17_BinaryOperatorOnFullTail ==
    [][(/\ CheckedPushBinaryOperator
        /\ is_full(NodeAt(tree, tree.tail))
        /\ tree'.fault = "none")
       => LET old == tree.tail
              n == Len(tree.nodes)
              former == NodeAt(tree, old).parent
          IN  /\ Len(tree'.nodes) = n + 1
              /\ NodeAt(tree', n) =
                    [operator |-> SomeOp(CharOp(tokens'[Len(tokens')])),
                     parent |-> former, left |-> ChildNode(old),
                     right |-> ChildNone, unary |-> FALSE]
              /\ NodeAt(tree', old).parent = SomeId(n)
              /\ tree'.tail = n
              /\ former.some =>
                    /\ tree'.head = tree.head
                    /\ NodeAt(tree, former.v).left = ChildNode(old) =>
                          NodeAt(tree', former.v).left = ChildNode(n)
                    /\ (/\ NodeAt(tree, former.v).left # ChildNode(old)
                        /\ NodeAt(tree, former.v).right = ChildNode(old)) =>
                          NodeAt(tree', former.v).right = ChildNode(n)
              /\ ~former.some => tree'.head = n]_vars

\* C18: push_operator treats the operator as binary exactly when
\* accept_binary_operator() is true before the call and as unary exactly when
\* accept_unary_operator() is; either way op_count grows by exactly 1 and
\* last_pushed becomes Operator; a unary insertion creates one new node marked
\* unary, parented to the old tail, placed in the old tail's first free slot,
\* and moves tail to it.
C18_PushOperator ==
    [][((PushOperator \/ CheckedPushUnaryOperator \/ CheckedPushBinaryOperator)
        /\ tree'.fault = "none")
       => LET old == tree.tail
              n == Len(tree.nodes)
              op == CharOp(tokens'[Len(tokens')])
              before == NodeAt(tree, old)
              after == NodeAt(tree', old)
          IN  /\ accept_binary_operator(tree) = ~accept_unary_operator(tree)
              /\ tree'.op_count = tree.op_count + 1
              /\ tree'.last_pushed = "Operator"
              /\ accept_binary_operator(tree) =>
                    \/ tree'.nodes = [tree.nodes EXCEPT ![old + 1].operator = SomeOp(op)]
                    \/ /\ Len(tree'.nodes) = n + 1
                       /\ ~NodeAt(tree', n).unary
                       /\ NodeAt(tree', n).left = ChildNode(old)
              /\ accept_unary_operator(tree) =>
                    /\ Len(tree'.nodes) = n + 1
                    /\ NodeAt(tree', n) =
                          [operator |-> SomeOp(op), parent |-> SomeId(old),
                           left |-> ChildNone, right |-> ChildNone, unary |-> TRUE]
                    /\ tree'.tail = n
                    /\ IF ~is_some(before.left)
                       THEN after = [before EXCEPT !.left = ChildNode(n)]
                       ELSE /\ ~is_some(before.right)
                            /\ after = [before EXCEPT !.right = ChildNode(n)]]_vars

\* the left child of node n yields no value to the function that produced
\* result, and n has an operator
LeftHasNoValue(n) ==
    /\ NodeAt(tree, n).operator.some
    /\ ChildBy(result.fn, tree, result.cb, NodeAt(tree, n).left)
          = Outcome("ok", NoneVal, "", ChildBy(result.fn, tree, result.cb,
                                                 NodeAt(tree, n).left).calls)

\* C19: on any tree, however it was built, when eval or eval_faillible reaches
\* a node that has an operator but whose left child yields no value, the node
\* yields no value and no error: short_circuit and eval_op are not called for
\* it and its right child is not evaluated.
C19_NoLeftValue ==
    result.fn \in {"eval", "eval_faillible"} =>
        \A n \in NodesUnder(tree, ChildNode(tree.head)) :
            LeftHasNoValue(n) =>
                /\ NodeBy(result.fn, tree, result.cb, n)
                      = ChildBy(result.fn, tree, result.cb, NodeAt(tree, n).left)
                /\ \A i \in DOMAIN result.out.calls :
                      ~(/\ result.out.calls[i].f \in {"short_circuit", "eval_op"}
                        /\ result.out.calls[i].id = n)

\* C19's case: eval_faillible returned Ok(None) from a head that has an
\* operator, no left value and an atom to its right, with an eval_atom that
\* would have failed on that atom
C19_Witness ==
    /\ result.fn = "eval_faillible"
    /\ LeftHasNoValue(tree.head)
    /\ NodeAt(tree, tree.head).right.kind = "Atom"
    /\ tree.atoms[NodeAt(tree, tree.head).right.id + 1] \in result.cb.bad_atoms
    /\ result.out.st = "ok"
    /\ ~result.out.val.some

\* C20: mutate_or_create_atom, when last_pushed is Atom, stores no atom, never
\* calls the factory, leaves nodes, head, tail, op_count, openness and
\* last_pushed unchanged and returns the last atom of the arena (the only one
\* the caller can then write); otherwise it has exactly the effect of
\* push_atom(factory()) and returns the atom just stored.
C20_MutateOrCreateAtom ==
    [][(MutateOrCreateAtom \/ CheckedMutateOrCreateAtom)
       => IF tree.last_pushed = "Atom"
          THEN /\ result'.created = <<>>
               /\ Len(tree'.atoms) = Len(tree.atoms)
               /\ result'.handle = SomeId(Len(tree.atoms) - 1)
               /\ \A i \in 1 .. Len(tree.atoms) - 1 : tree'.atoms[i] = tree.atoms[i]
               /\ tree'.nodes = tree.nodes
               /\ tree'.head = tree.head
               /\ tree'.tail = tree.tail
               /\ tree'.op_count = tree.op_count
               /\ tree'.openness = tree.openness
               /\ tree'.last_pushed = tree.last_pushed
               /\ tree'.fault = tree.fault
          ELSE /\ Len(result'.created) = 1
               /\ result'.handle = SomeId(Len(tree.atoms))
               /\ [tree' EXCEPT !.atoms[Len(tree.atoms) + 1] = result'.created[1]]
                     = push_atom(tree, result'.created[1])]_vars

\* C20's case: the call handed out the second atom of a tree, pushed after an
\* operator, without creating one
C20_Witness ==
    /\ result.fn = "mutate_or_create_atom"
    /\ result.created = <<>>
    /\ Len(tree.atoms) = 2
    /\ result.handle = SomeId(1)
    /\ tree.op_count > 0
    /\ tree.last_pushed = "Atom"
    /\ tree.atoms[1] # tree.atoms[2]
    /\ Len(tokens) = 3

\* C21: for every sequence of builder operations, grammar-valid or not,
\* whenever push_binary_operator replaces a full tail that has a parent, the
\* left or the right slot of that parent is Node(tail): the debug_assert_eq on
\* the parent's right slot never fails.
C21_ReplacedChildIsInItsParent ==
    [][(/\ BuildOperator
        /\ accept_binary_operator(tree)
        /\ is_full(NodeAt(tree, tree.tail))
        /\ NodeAt(tree, tree.tail).parent.some)
       => LET parent == NodeAt(tree, NodeAt(tree, tree.tail).parent.v)
          IN  /\ \/ parent.left = ChildNode(tree.tail)
                 \/ parent.right = ChildNode(tree.tail)
              /\ tree'.fault = "none"]_vars

\* C21's case: in a dev build, after tokens that were not all acceptable, a
\* binary operator has just replaced a full tail held by the right slot of
\* its parent
C21_Witness ==
    /\ ~checked
    /\ tree.debug_assertions
    /\ tree.fault = "none"
    /\ simplified = "no"
    /\ tree.last_pushed = "Operator"
    /\ LET n == NodeAt(tree, tree.tail)
       IN  /\ tree.tail = Len(tree.nodes) - 1
           /\ ~n.unary
           /\ n.left.kind = "Node"
           /\ n.right = ChildNone
           /\ n.parent.some
           /\ NodeAt(tree, n.parent.v).right = ChildNode(tree.tail)
           /\ NodeAt(tree, n.left.id).parent = SomeId(tree.tail)

\* the child slots, of nodes the head reaches, that hold atom a
SlotsOfAtom(self, a) ==
    {<<n, side>> \in Reach(self, {self.head}) \X {"left", "right"} :
        (IF side = "left" THEN NodeAt(self, n).left ELSE NodeAt(self, n).right)
          = ChildAtom(a)}

\* C22: after every prefix of a grammar-valid token sequence, every stored
\* atom is held by exactly one child slot of a node reachable from head (no
\* atom was overwritten or cut off), so an eval that never short-circuits
\* calls eval_atom exactly once for each pushed atom.
C22_EveryAtomInTheTree ==
    (checked /\ simplified = "no" /\ tree.fault = "none") =>
        /\ \A a \in 0 .. Len(tree.atoms) - 1 :
              Cardinality(SlotsOfAtom(tree, a)) = 1
        /\ (result.fn = "eval" /\ result.cb.sc = "never" /\ result.out.st = "ok") =>
              \A a \in 0 .. Len(tree.atoms) - 1 :
                  Cardinality({i \in DOMAIN result.out.calls :
                                 /\ result.out.calls[i].f = "eval_atom"
                                 /\ result.out.calls[i].id = a}) = 1

\* the nodes reachable from head that carry an operator
OperatorNodes(self) ==
    {n \in Reach(self, {self.head}) : NodeAt(self, n).operator.some}

\* C23: after every prefix of a grammar-valid token sequence, op_count is the
\* number of nodes reachable from head that carry an operator: no operator
\* was overwritten and no operator node was cut off from head.
C23_OpCountIsOperatorNodes ==
    (checked /\ simplified = "no" /\ tree.fault = "none") =>
        tree.op_count = Cardinality(OperatorNodes(tree))

\* C24: for any tree built by any sequence of builder operations and simplify
\* calls, grammar-valid or not, the graph eval follows from head through left
\* and right node-children has no cycle, so eval, eval_faillible and simplify
\* always return.
C24_WalksTerminate ==
    /\ tree.fault # "hang"
    /\ \A n \in Reach(tree, {tree.head}) :
          n \notin Reach(tree, NodeChildren(tree, {n}))
    /\ \A cb \in TotalCallbacks :
          /\ eval(tree, cb).st # "overflow"
          /\ eval_faillible(tree, cb).st # "overflow"

\* C24's case: simplify has moved the head of a tree built from tokens that
\* were not all acceptable, more tokens were pushed, and head reaches at least
\* three nodes
C24_Witness ==
    /\ ~checked
    /\ simplified = "yes"
    /\ tree.fault = "none"
    /\ tree.head # 0
    /\ Cardinality(Reach(tree, {tree.head})) >= 3

\* C25: in every state reachable by builder operations interleaved with
\* simplify calls, the tail node is reachable from head, so tokens pushed
\* after a simplify are part of the expression eval evaluates.
C25_TailReachableFromHead ==
    tree.fault = "none" => tree.tail \in Reach(tree, {tree.head})

====
